---- MODULE Spec2Model ----
(***************************************************************************)
(* Model of frontend/server.js: the Express proxy that relays Eventbrite,  *)
(* Google Calendar and ICS documents and reshapes every record with        *)
(* normalizeEvent.                                                         *)
(*                                                                         *)
(* JavaScript values are records [t, s]: t is the kind of the value and s  *)
(* the characters of a string (a sequence of one-character strings), so    *)
(* that slicing, prefixes and template literals are computed.              *)
(***************************************************************************)
EXTENDS Integers, Sequences, FiniteSets, TLC

VARIABLES
  EVENTBRITE_TOKEN,  \* process.env.EVENTBRITE_TOKEN || ''
  GOOGLE_API_KEY,    \* process.env.GOOGLE_API_KEY || ''
  route,             \* the route of the request being handled
  query,             \* req.query of that request
  pc,                \* where its handler stands
  outbound,          \* outbound calls issued for that request
  upstream,          \* what the external service or library answered
  sent,              \* the responses written to res, in order
  escaped,           \* an exception left the handler
  prev,              \* the first event id a client got from an earlier request
  ncall,             \* a call of normalizeEvent: its call site, the raw record
  nargs,             \* the argument object of that call
  nres               \* and the Canonical Event it returned

vars == <<EVENTBRITE_TOKEN, GOOGLE_API_KEY, route, query, pc, outbound,
          upstream, sent, escaped, prev, ncall, nargs, nres>>

(* ------------------------- JavaScript values --------------------------- *)

Undefined == [t |-> "undefined", s |-> <<>>]
Null == [t |-> "null", s |-> <<>>]
JTrue == [t |-> "true", s |-> <<>>]
JFalse == [t |-> "false", s |-> <<>>]
Str(chars) == [t |-> "string", s |-> chars]
\* a Date whose toISOString() is `iso`, and a Date holding NaN
DateOf(iso) == [t |-> "date", s |-> iso]
InvalidDate == [t |-> "invalid_date", s |-> <<>>]

\* ToBoolean
Truthy(v) ==
  \/ v.t = "string" /\ v.s # <<>>
  \/ v.t \in {"true", "date", "invalid_date"}

\* a || b
Or(a, b) == IF Truthy(a) THEN a ELSE b

\* ToString, as a template literal `${v}` applies it
ToStr(v) ==
  CASE v.t = "string" -> v.s
    [] v.t = "undefined" -> <<"u","n","d","e","f","i","n","e","d">>
    [] v.t = "null" -> <<"n","u","l","l">>
    [] v.t = "true" -> <<"t","r","u","e">>
    [] v.t = "false" -> <<"f","a","l","s","e">>
    [] OTHER -> v.s

\* String.prototype.slice(0, n)
Slice0(chars, n) == SubSeq(chars, 1, IF Len(chars) < n THEN Len(chars) ELSE n)

IsPrefix(p, chars) == Len(p) <= Len(chars) /\ SubSeq(chars, 1, Len(p)) = p

(* ------------------------------ literals ------------------------------- *)

sEmpty == <<>>
sUnknown == <<"U","n","k","n","o","w","n">>
sOther == <<"o","t","h","e","r">>
sGovernment == <<"g","o","v","e","r","n","m","e","n","t">>
sCompany == <<"c","o","m","p","a","n","y">>
sExternal == <<"e","x","t","e","r","n","a","l">>
sEventbrite == <<"E","v","e","n","t","b","r","i","t","e">>
sGoogleCalendar == <<"G","o","o","g","l","e"," ","C","a","l","e","n","d","a","r">>
sICS == <<"I","C","S">>
pEventbrite == <<"e","v","e","n","t","b","r","i","t","e","_">>
pGcal == <<"g","c","a","l","_">>
pIcs == <<"i","c","s","_">>

(* ---------------------------- normalizeEvent --------------------------- *)

\* the destructured parameter: a field the caller leaves out is Undefined
NoArgs == [id |-> Undefined, title |-> Undefined, description |-> Undefined,
           start |-> Undefined, end |-> Undefined, venue |-> Undefined,
           organizerName |-> Undefined, organizerType |-> Undefined,
           sourceName |-> Undefined, external |-> Undefined]

\* normalizeEvent with `venue: venue` (the `|| ''` forgotten)
normalizeEventVenueRaw(a) ==
  [id |-> a.id,
   title |-> Or(a.title, Str(sEmpty)),
   description |-> Or(a.description, Str(sEmpty)),
   start |-> Or(a.start, Str(sEmpty)),
   end |-> Or(a.end, Str(sEmpty)),
   venue |-> a.venue,
   organizer |-> [name |-> Or(Or(a.organizerName, a.sourceName), Str(sUnknown)),
                  type |-> Or(a.organizerType, Str(sOther)),
                  verified |-> a.organizerType = Str(sGovernment)
                               \/ a.organizerType = Str(sCompany)],
   source |-> [name |-> Or(a.sourceName, Str(sExternal))],
   tags |-> <<>>,
   external |-> IF a.external = Undefined THEN JTrue ELSE a.external,
   registration |-> [open |-> TRUE]]

\* verified: !!organizerType
OrganizerVerifiedAnyType(organizerType) == Truthy(organizerType)

\* name: organizerName || 'Unknown'
OrganizerNameNoSource(organizerName, sourceName) == Or(organizerName, Str(sUnknown))

\* the default of the parameter `external=true` applies to undefined only
DefaultExternal(v) == IF v = Undefined THEN JTrue ELSE v

OrganizerVerified(organizerType) ==
  organizerType = Str(sGovernment) \/ organizerType = Str(sCompany)

OrganizerName(organizerName, sourceName) ==
  Or(Or(organizerName, sourceName), Str(sUnknown))

normalizeEvent(a) ==
  [id |-> a.id,
   title |-> Or(a.title, Str(sEmpty)),
   description |-> Or(a.description, Str(sEmpty)),
   start |-> Or(a.start, Str(sEmpty)),
   end |-> Or(a.end, Str(sEmpty)),
   venue |-> Or(a.venue, Str(sEmpty)),
   organizer |-> [name |-> OrganizerName(a.organizerName, a.sourceName),
                  type |-> Or(a.organizerType, Str(sOther)),
                  verified |-> OrganizerVerified(a.organizerType)],
   source |-> [name |-> Or(a.sourceName, Str(sExternal))],
   tags |-> <<>>,
   external |-> DefaultExternal(a.external),
   registration |-> [open |-> TRUE]]

(* ------------------------------ bounds --------------------------------- *)

\* records in an upstream list, components in a parsed ICS document
MaxRecords == 2
\* characters a uid or summary may have beyond the slice length
MaxExtra == 1

\* the length `.slice(0,40)` keeps
IdSliceLen == 40

(* --------------------------- Eventbrite adapter ------------------------ *)

\* one element of json.events; isObject is FALSE for a null element.  The
\* optional chains (ev.name?.text, ev.venue?.address?....) are flattened:
\* each field is the value the chain evaluates to.
EbRecord(isObject, id, nameText, startUtc, startLocal, venueName, organizerName) ==
  [isObject |-> isObject, id |-> id, nameText |-> nameText,
   descriptionText |-> Undefined, startUtc |-> startUtc,
   startLocal |-> startLocal, endUtc |-> Undefined, endLocal |-> startLocal,
   venueAddress |-> Undefined, venueName |-> venueName,
   organizerName |-> organizerName]

\* `ev.id` of a null element throws a TypeError
EventbriteThrows(ev) == ~ev.isObject

\* id: `gcal_${ev.id}`, the prefix of the other route
EventbriteIdGcalPrefix(ev) == Str(pGcal \o ToStr(ev.id))

EventbriteId(ev) == Str(pEventbrite \o ToStr(ev.id))

EventbriteArgs(ev) ==
  [id |-> EventbriteId(ev),
   title |-> ev.nameText,
   description |-> ev.descriptionText,
   start |-> Or(ev.startUtc, ev.startLocal),
   end |-> Or(ev.endUtc, ev.endLocal),
   venue |-> Or(ev.venueAddress, ev.venueName),
   organizerName |-> ev.organizerName,
   organizerType |-> Str(sCompany),
   sourceName |-> Str(sEventbrite),
   external |-> JTrue]

(* ------------------------ Google Calendar adapter ---------------------- *)

\* one element of json.items; hasStart / hasOrganizer say whether it.start
\* (and it.end) / it.organizer are objects
GcalItem(isObject, id, summary, hasStart, dateTime, date, hasOrganizer, displayName, email) ==
  [isObject |-> isObject, id |-> id, summary |-> summary,
   description |-> Undefined, hasStart |-> hasStart,
   startDateTime |-> dateTime, startDate |-> date,
   endDateTime |-> dateTime, endDate |-> date, location |-> Undefined,
   hasOrganizer |-> hasOrganizer, displayName |-> displayName, email |-> email]

GcalThrows(it) == ~it.isObject

GcalId(it) == Str(pGcal \o ToStr(it.id))

GcalOrganizerName(it) ==
  Or(Or(IF it.hasOrganizer THEN it.displayName ELSE Undefined,
        IF it.hasOrganizer THEN it.email ELSE Undefined),
     Str(sGoogleCalendar))

GcalArgs(it) ==
  [id |-> GcalId(it),
   title |-> it.summary,
   description |-> Or(it.description, Str(sEmpty)),
   start |-> IF it.hasStart THEN Or(it.startDateTime, it.startDate) ELSE Undefined,
   end |-> IF it.hasStart THEN Or(it.endDateTime, it.endDate) ELSE Undefined,
   venue |-> Or(it.location, Str(sEmpty)),
   organizerName |-> GcalOrganizerName(it),
   organizerType |-> Str(sOther),
   sourceName |-> Str(sGoogleCalendar),
   external |-> JTrue]

(* ------------------------------ ICS adapter ---------------------------- *)

\* one value of the object node-ical returns; isObject is FALSE for a
\* null or undefined value
IcsComponent(isObject, type, uid, summary, start, organizer) ==
  [isObject |-> isObject, type |-> type, uid |-> uid, summary |-> summary,
   description |-> Undefined, start |-> start, end |-> start,
   location |-> Undefined, organizer |-> organizer]

\* ev && ev.type === 'VEVENT'
IsVEvent(ev) == ev.isObject /\ ev.type = "VEVENT"

\* ev.start.toISOString(): a RangeError for a Date holding NaN
ToISOStringThrows(d) == d.t # "date"
ToISOString(d) == Str(d.s)

IcsThrows(ev) ==
  \/ Truthy(ev.start) /\ ToISOStringThrows(ev.start)
  \/ Truthy(ev.end) /\ ToISOStringThrows(ev.end)

\* id without the .slice(0,40)
IcsIdUnsliced(ev) == Str(pIcs \o ToStr(Or(Or(ev.uid, ev.summary), Str(sEmpty))))

IcsId(ev) ==
  Str(pIcs \o Slice0(ToStr(Or(Or(ev.uid, ev.summary), Str(sEmpty))), IdSliceLen))

IcsArgs(ev) ==
  [id |-> IcsId(ev),
   title |-> Or(ev.summary, Str(sEmpty)),
   description |-> Or(ev.description, Str(sEmpty)),
   start |-> IF Truthy(ev.start) THEN ToISOString(ev.start) ELSE Str(sEmpty),
   end |-> IF Truthy(ev.end) THEN ToISOString(ev.end) ELSE Str(sEmpty),
   venue |-> Or(ev.location, Str(sEmpty)),
   organizerName |-> Or(ev.organizer, Str(sEmpty)),
   organizerType |-> Str(sOther),
   sourceName |-> Str(sICS),
   external |-> JTrue]

(* ----------------------------- Object.keys ----------------------------- *)

Digits == <<"0","1","2","3","4","5","6","7","8","9">>
IsDigit(c) == \E d \in 1..10 : Digits[d] = c
DigitVal(c) == (CHOOSE d \in 1..10 : Digits[d] = c) - 1

\* a < b for two canonical numeric strings
NumLess(a, b) ==
  \/ Len(a) < Len(b)
  \/ /\ Len(a) = Len(b)
     /\ \E i \in 1..Len(a) :
          /\ DigitVal(a[i]) < DigitVal(b[i])
          /\ \A j \in 1..(i-1) : a[j] = b[j]

\* 2^32 - 1: an array index is a canonical numeric string below it
sIndexLimit == <<"4","2","9","4","9","6","7","2","9","5">>

IsArrayIndex(k) ==
  /\ k # <<>>
  /\ \A i \in 1..Len(k) : IsDigit(k[i])
  /\ Len(k) > 1 => k[1] # "0"
  /\ NumLess(k, sIndexLimit)

\* the entries in insertion order, whatever their keys
ObjectKeysInsertionOrder(obj) == [n \in 1..Len(obj) |-> n]

\* The positions of an object's entries (kept here in insertion order) in
\* the order Object.keys lists them: array-index keys ascending, then the
\* other keys in insertion order.
ObjectKeys(obj) ==
  LET all == 1..Len(obj)
      idx == {i \in all : IsArrayIndex(obj[i].key)}
      rest == all \ idx
      rankIdx(i) == Cardinality({j \in idx : NumLess(obj[j].key, obj[i].key)}) + 1
      rankRest(i) == Cardinality({j \in rest : j < i}) + 1
  IN [n \in all |->
        IF n <= Cardinality(idx)
        THEN CHOOSE i \in idx : rankIdx(i) = n
        ELSE CHOOSE i \in rest : rankRest(i) = n - Cardinality(idx)]

(* ------------------------------ responses ------------------------------ *)

NoEvents == <<>>

\* res.json({ events })
Ok(events) ==
  [status |-> 200, error |-> "", hasDetails |-> FALSE, hasEvents |-> TRUE,
   events |-> events, health |-> FALSE]

\* res.status(code).json({ error })
Refuse(code, error) ==
  [status |-> code, error |-> error, hasDetails |-> FALSE, hasEvents |-> FALSE,
   events |-> NoEvents, health |-> FALSE]

\* res.status(500).json({ error, details: err.message })
Failed(error) ==
  [status |-> 500, error |-> error, hasDetails |-> TRUE, hasEvents |-> FALSE,
   events |-> NoEvents, health |-> FALSE]

\* res.json({ ok: true, ts: Date.now() })
Health ==
  [status |-> 200, error |-> "", hasDetails |-> FALSE, hasEvents |-> FALSE,
   events |-> NoEvents, health |-> TRUE]

\* the `error` summary of each route's catch block
FailureSummary(r) ==
  CASE r = "eventbrite" -> "Eventbrite fetch failed"
    [] r = "gcal" -> "Google Calendar fetch failed"
    [] r = "ics" -> "Failed to fetch/parse ICS"
    [] OTHER -> ""

(* --------------------------- the try blocks ---------------------------- *)

\* What the body of a try block came to: it threw, or it built `events`.
\* `events` holds the events normalized before the throw.
Threw(built) == [threw |-> TRUE, events |-> built]
Built(events) == [threw |-> FALSE, events |-> events]

\* records.map(rec => normalizeEvent(Args(rec))), stopped by the first
\* throw: throws[i] says whether the callback throws on record i, args[i]
\* is the argument object it builds for it
MapRecords(throws, args) ==
  LET bad == {i \in 1..Len(throws) : throws[i]}
      stop == IF bad = {} THEN Len(throws) + 1
              ELSE CHOOSE i \in bad : \A j \in bad : i <= j
      built == [i \in 1..(stop - 1) |-> normalizeEvent(args[i])]
  IN IF bad = {} THEN Built(built) ELSE Threw(built)

\* A JSON body as r.json() and `(json.<field> || [])` see it.
\*   kind: "notjson" (r.json() rejects), "null" (json.<field> throws),
\*         "object"
\*   field: json.events / json.items: "absent", "null", "string" (truthy,
\*          no .map), "array" (of `records`)
Body(kind, field, records) == [kind |-> kind, field |-> field, records |-> records]

\* const json = await r.json(); const events = (json.<field> || []).map(...)
MapBody(body, throws, args) ==
  CASE body.kind \in {"notjson", "null"} -> Threw(<<>>)
    [] body.field \in {"absent", "null"} -> Built(<<>>)
    [] body.field = "string" -> Threw(<<>>)
    [] OTHER -> MapRecords(throws, args)

EventbriteTry(body) ==
  MapBody(body,
          [i \in 1..Len(body.records) |-> EventbriteThrows(body.records[i])],
          [i \in 1..Len(body.records) |-> EventbriteArgs(body.records[i])])

GcalTry(body) ==
  MapBody(body,
          [i \in 1..Len(body.records) |-> GcalThrows(body.records[i])],
          [i \in 1..Len(body.records) |-> GcalArgs(body.records[i])])

\* the components the for loop visits, in the order of Object.keys(parsed)
IcsVisited(parsed) ==
  LET order == ObjectKeys(parsed)
  IN [n \in 1..Len(parsed) |-> parsed[order[n]].val]

\* for (const k of Object.keys(parsed)) { if VEVENT: events.push(...) }
IcsTry(parsed) ==
  LET vevents == SelectSeq(IcsVisited(parsed), IsVEvent)
  IN MapRecords([i \in 1..Len(vevents) |-> IcsThrows(vevents[i])],
                [i \in 1..Len(vevents) |-> IcsArgs(vevents[i])])

\* a catch block that answers with the events built before the throw
CatchPartial(r, result) == [sent |-> <<Ok(result.events)>>, escaped |-> FALSE]

\* } catch (err) { res.status(500).json({ error, details: err.message }) }
\* and, when nothing threw, res.json({ events })
Catch(r, result) ==
  IF result.threw
  THEN [sent |-> <<Failed(FailureSummary(r))>>, escaped |-> FALSE]
  ELSE [sent |-> <<Ok(result.events)>>, escaped |-> FALSE]

(* ------------------------------- inputs -------------------------------- *)

SeqsUpTo(S, n) == UNION {[1..k -> S] : k \in 0..n}

\* a string of n characters, all positions told apart modulo 10
LongStr(n) == [i \in 1..n |-> Digits[(i % 10) + 1]]

Tokens == {<<>>, <<"k">>}

QValues == {Undefined, Str(<<"a">>)}
PageValues == {Undefined, Str(<<"2">>)}
CalendarIds == {Undefined, Str(<<>>), Str(<<"c">>)}
Urls == {Undefined, Str(<<>>), Str(<<"u">>)}

sT == Str(<<"T">>)
sU == Str(<<"U">>)
sL == Str(<<"L">>)
sO == Str(<<"O">>)
s7 == Str(<<"7">>)

EbRecords ==
  {EbRecord(FALSE, Undefined, Undefined, Undefined, Undefined, Undefined, Undefined)}
  \cup {EbRecord(TRUE, id, sT, sU, sL, sL, sO) : id \in {s7, Undefined, Str(<<>>)}}
  \cup {EbRecord(TRUE, s7, sT, sU, sL, sL, o) : o \in {Undefined, Str(<<>>)}}
  \cup {EbRecord(TRUE, s7, Undefined, Undefined, sL, Undefined, sO)}

GcalItems ==
  {GcalItem(FALSE, Undefined, Undefined, FALSE, Undefined, Undefined, FALSE, Undefined, Undefined)}
  \cup {GcalItem(TRUE, id, sT, TRUE, sU, sL, TRUE, sO, sL) : id \in {s7, Undefined, Str(<<>>)}}
  \cup {GcalItem(TRUE, s7, sT, TRUE, sU, sL, TRUE, Undefined, e) : e \in {sL, Undefined}}
  \cup {GcalItem(TRUE, s7, sT, TRUE, sU, sL, FALSE, Undefined, Undefined)}
  \cup {GcalItem(TRUE, s7, Undefined, TRUE, Undefined, sL, TRUE, sO, sL)}
  \cup {GcalItem(TRUE, s7, sT, FALSE, Undefined, Undefined, TRUE, sO, sL)}

IcsUids == {sU} \cup {Str(LongStr(IdSliceLen + k)) : k \in 0..MaxExtra}

IcsComponents ==
  {IcsComponent(FALSE, "", Undefined, Undefined, Undefined, Undefined),
   IcsComponent(TRUE, "VTIMEZONE", sU, sT, DateOf(<<"D">>), Undefined)}
  \cup {IcsComponent(TRUE, "VEVENT", u, sT, DateOf(<<"D">>), Undefined) : u \in IcsUids}
  \cup {IcsComponent(TRUE, "VEVENT", Str(<<>>), sT, DateOf(<<"D">>), Str(<<>>)),
        IcsComponent(TRUE, "VEVENT", Undefined, Undefined, Undefined, sO),
        IcsComponent(TRUE, "VEVENT", Undefined, Str(LongStr(IdSliceLen + MaxExtra)),
                     DateOf(<<"D">>), Undefined),
        IcsComponent(TRUE, "VEVENT", sU, sT, InvalidDate, Undefined)}

\* property names of the parsed object: two array indices and a name
IcsKeys == {<<"2">>, <<"1","0">>, <<"a">>}

\* the objects ical.async.fromURL resolves with: entries in insertion
\* order, keys distinct
ParsedDocs ==
  {p \in SeqsUpTo([key : IcsKeys, val : IcsComponents], MaxRecords) :
     \A i, j \in 1..Len(p) : i # j => p[i].key # p[j].key}

\* what `await fetch(url)` resolves with, as far as the handler and the
\* claims look at it: the status, and the body r.json() will read
FetchStatuses == {200, 404}

\* r.ok, which no handler reads
Is2xx(status) == status >= 200 /\ status < 300

ErrorBodies ==
  {Body("notjson", "absent", <<>>), Body("null", "absent", <<>>),
   Body("object", "absent", <<>>),
   Body("object", "null", <<>>), Body("object", "string", <<>>)}

Bodies(status, Records) ==
  IF Is2xx(status)
  THEN ErrorBodies \cup {Body("object", "array", rs) : rs \in SeqsUpTo(Records, MaxRecords)}
  ELSE ErrorBodies

(* -------------------------------- state -------------------------------- *)

NoQuery == [q |-> Undefined, page |-> Undefined, calendarId |-> Undefined, url |-> Undefined]

NoUpstream ==
  [settled |-> "none", status |-> 0, body |-> Body("none", "none", <<>>), parsed |-> <<>>]

NoPrev == [route |-> "none", id |-> Undefined]

\* no call of normalizeEvent looked at
NoCall == [site |-> "none", raw |-> <<>>]

ConfigInit ==
  /\ EVENTBRITE_TOKEN \in Tokens
  /\ GOOGLE_API_KEY \in Tokens

Idle ==
  /\ route = "none"
  /\ query = NoQuery
  /\ pc = "idle"
  /\ outbound = <<>>
  /\ upstream = NoUpstream
  /\ sent = <<>>
  /\ escaped = FALSE

Init ==
  /\ ConfigInit
  /\ Idle
  /\ prev = NoPrev
  /\ ncall = NoCall
  /\ nargs = NoArgs
  /\ nres = normalizeEvent(NoArgs)

config == <<EVENTBRITE_TOKEN, GOOGLE_API_KEY>>
norm == <<ncall, nargs, nres>>

\* the handler returns having sent `response`, with no outbound call
Reply(response) ==
  /\ sent' = Append(sent, response)
  /\ pc' = "done"
  /\ UNCHANGED <<outbound, upstream, escaped>>

\* the handler issues its outbound call and awaits it at `at`
Call(at, request) ==
  /\ outbound' = Append(outbound, request)
  /\ pc' = at
  /\ UNCHANGED <<upstream, sent, escaped>>

\* the awaited call settled as `up`, and the handler ends with `outcome`
Finish(up, outcome) ==
  /\ upstream' = up
  /\ sent' = sent \o outcome.sent
  /\ escaped' = outcome.escaped
  /\ pc' = "done"
  /\ UNCHANGED outbound

(* ------------------------------ /api/eventbrite ------------------------ *)

\* the handler without its first line, the EVENTBRITE_TOKEN check
GetEventbriteUnchecked ==
  /\ pc = "idle"
  /\ \E q \in QValues, page \in PageValues :
       /\ route' = "eventbrite"
       /\ query' = [NoQuery EXCEPT !.q = q, !.page = page]
       /\ Call("fetch", [to |-> "eventbrite",
                         arg |-> Or(q, Str(sEmpty)),
                         page |-> ToStr(Or(page, Str(<<"1">>))),
                         credential |-> EVENTBRITE_TOKEN])
  /\ UNCHANGED <<config, prev, norm>>

GetEventbrite ==
  /\ pc = "idle"
  /\ \E q \in QValues, page \in PageValues :
       /\ route' = "eventbrite"
       /\ query' = [NoQuery EXCEPT !.q = q, !.page = page]
       /\ IF EVENTBRITE_TOKEN = <<>>
          THEN Reply(Refuse(500, "Missing EVENTBRITE_TOKEN env var"))
          ELSE Call("fetch", [to |-> "eventbrite",
                              arg |-> Or(q, Str(sEmpty)),
                              page |-> ToStr(Or(page, Str(<<"1">>))),
                              credential |-> EVENTBRITE_TOKEN])
  /\ UNCHANGED <<config, prev, norm>>

\* await fetch(url, ...) settles
EventbriteFetch ==
  /\ pc = "fetch" /\ route = "eventbrite"
  /\ \/ Finish([NoUpstream EXCEPT !.settled = "network"], Catch("eventbrite", Threw(<<>>)))
     \/ \E st \in FetchStatuses :
          /\ upstream' = [NoUpstream EXCEPT !.settled = "response", !.status = st]
          /\ pc' = "json"
          /\ UNCHANGED <<outbound, sent, escaped>>
  /\ UNCHANGED <<config, route, query, prev, norm>>

\* await r.json() settles and the rest of the try block runs
EventbriteJson ==
  /\ pc = "json" /\ route = "eventbrite"
  /\ \E b \in Bodies(upstream.status, EbRecords) :
       Finish([upstream EXCEPT !.body = b], Catch("eventbrite", EventbriteTry(b)))
  /\ UNCHANGED <<config, route, query, prev, norm>>

(* --------------------------- /api/google-calendar ---------------------- *)

\* the handler with its two checks in the other order
GetGoogleCalendarKeyFirst ==
  /\ pc = "idle"
  /\ \E calendarId \in CalendarIds :
       /\ route' = "gcal"
       /\ query' = [NoQuery EXCEPT !.calendarId = calendarId]
       /\ IF GOOGLE_API_KEY = <<>>
          THEN Reply(Refuse(500, "Missing GOOGLE_API_KEY env var"))
          ELSE IF ~Truthy(calendarId)
          THEN Reply(Refuse(400, "calendarId required"))
          ELSE Call("fetch", [to |-> "gcal", arg |-> calendarId,
                              page |-> <<>>, credential |-> GOOGLE_API_KEY])
  /\ UNCHANGED <<config, prev, norm>>

GetGoogleCalendar ==
  /\ pc = "idle"
  /\ \E calendarId \in CalendarIds :
       /\ route' = "gcal"
       /\ query' = [NoQuery EXCEPT !.calendarId = calendarId]
       /\ IF ~Truthy(calendarId)
          THEN Reply(Refuse(400, "calendarId required"))
          ELSE IF GOOGLE_API_KEY = <<>>
          THEN Reply(Refuse(500, "Missing GOOGLE_API_KEY env var"))
          ELSE Call("fetch", [to |-> "gcal", arg |-> calendarId,
                              page |-> <<>>, credential |-> GOOGLE_API_KEY])
  /\ UNCHANGED <<config, prev, norm>>

GcalFetch ==
  /\ pc = "fetch" /\ route = "gcal"
  /\ \/ Finish([NoUpstream EXCEPT !.settled = "network"], Catch("gcal", Threw(<<>>)))
     \/ \E st \in FetchStatuses :
          /\ upstream' = [NoUpstream EXCEPT !.settled = "response", !.status = st]
          /\ pc' = "json"
          /\ UNCHANGED <<outbound, sent, escaped>>
  /\ UNCHANGED <<config, route, query, prev, norm>>

GcalJson ==
  /\ pc = "json" /\ route = "gcal"
  /\ \E b \in Bodies(upstream.status, GcalItems) :
       Finish([upstream EXCEPT !.body = b], Catch("gcal", GcalTry(b)))
  /\ UNCHANGED <<config, route, query, prev, norm>>

(* ------------------------------ /api/fetch-ics ------------------------- *)

GetFetchIcs ==
  /\ pc = "idle"
  /\ \E url \in Urls :
       /\ route' = "ics"
       /\ query' = [NoQuery EXCEPT !.url = url]
       /\ IF ~Truthy(url)
          THEN Reply(Refuse(400, "url query param required"))
          ELSE Call("ical", [to |-> "ics", arg |-> url,
                             page |-> <<>>, credential |-> <<>>])
  /\ UNCHANGED <<config, prev, norm>>

\* await ical.async.fromURL(url) settles and the rest of the try block runs
IcsFromURL ==
  /\ pc = "ical" /\ route = "ics"
  /\ \/ Finish([NoUpstream EXCEPT !.settled = "rejected"], Catch("ics", Threw(<<>>)))
     \/ \E p \in ParsedDocs :
          Finish([NoUpstream EXCEPT !.settled = "resolved", !.parsed = p],
                 Catch("ics", IcsTry(p)))
  /\ UNCHANGED <<config, route, query, prev, norm>>

(* ------------------------------- /api/health --------------------------- *)

GetHealth ==
  /\ pc = "idle"
  /\ route' = "health"
  /\ query' = NoQuery
  /\ Reply(Health)
  /\ UNCHANGED <<config, prev, norm>>

(* ------------------------------------------------------------------------ *)

\* The request is over; the client keeps the first event id it got, if
\* any, and the server is ready for the next request.
NextRequest ==
  /\ pc = "done"
  /\ LET got == IF sent # <<>> /\ sent[1].hasEvents THEN sent[1].events ELSE <<>>
     IN IF got = <<>>
        THEN prev' = prev
        ELSE prev' = [route |-> route, id |-> got[1].id]
  /\ route' = "none"
  /\ query' = NoQuery
  /\ pc' = "idle"
  /\ outbound' = <<>>
  /\ upstream' = NoUpstream
  /\ sent' = <<>>
  /\ escaped' = FALSE
  /\ UNCHANGED <<config, norm>>

Next ==
  \/ GetEventbrite
  \/ EventbriteFetch
  \/ EventbriteJson
  \/ GetGoogleCalendar
  \/ GcalFetch
  \/ GcalJson
  \/ GetFetchIcs
  \/ IcsFromURL
  \/ GetHealth
  \/ NextRequest

Spec == Init /\ [][Next]_vars

(* -------------------- normalizeEvent called directly -------------------- *)

TextValues == {Undefined, Null, Str(<<>>), sT}

OrganizerTypes ==
  {Undefined, Str(<<>>), Str(sOther), Str(sGovernment), Str(sCompany),
   Str(<<"C","o","m","p","a","n","y">>), Str(<<"c","o","m","p","a","n","y"," ">>)}

NormArgs ==
  [id : {Undefined, s7},
   title : TextValues,
   description : {Undefined, sT},
   start : {Undefined, sU},
   end : {Undefined, sU},
   venue : {Undefined, sL},
   organizerName : {Undefined, Str(<<>>), sO},
   organizerType : OrganizerTypes,
   sourceName : {Undefined, Str(<<>>), Str(<<"F","o","o">>)},
   external : {Undefined, JTrue, JFalse}]

NormInit ==
  /\ EVENTBRITE_TOKEN = <<>>
  /\ GOOGLE_API_KEY = <<>>
  /\ Idle
  /\ prev = NoPrev
  /\ ncall = NoCall
  /\ nargs = NoArgs
  /\ nres = normalizeEvent(NoArgs)

Called(site, raw, a) ==
  /\ ncall' = [site |-> site, raw |-> raw]
  /\ nargs' = a
  /\ nres' = normalizeEvent(a)
  /\ UNCHANGED <<config, route, query, pc, outbound, upstream, sent, escaped, prev>>

\* normalizeEvent(a), for any argument object
Normalize ==
  /\ ncall = NoCall
  /\ \E a \in NormArgs : Called("direct", <<>>, a)

\* the callback of json.events.map, for one element
EventbriteCallback ==
  /\ ncall = NoCall
  /\ \E ev \in EbRecords :
       ~EventbriteThrows(ev) /\ Called("eventbrite", ev, EventbriteArgs(ev))

\* the callback of json.items.map, for one element
GcalCallback ==
  /\ ncall = NoCall
  /\ \E it \in GcalItems : ~GcalThrows(it) /\ Called("gcal", it, GcalArgs(it))

\* the body of the for loop, for one VEVENT
IcsLoopBody ==
  /\ ncall = NoCall
  /\ \E ev \in IcsComponents :
       IsVEvent(ev) /\ ~IcsThrows(ev) /\ Called("ics", ev, IcsArgs(ev))

\* the call returned and its event was used
Returned ==
  /\ ncall # NoCall
  /\ ncall' = NoCall
  /\ nargs' = NoArgs
  /\ nres' = normalizeEvent(NoArgs)
  /\ UNCHANGED <<config, route, query, pc, outbound, upstream, sent, escaped, prev>>

NormNext ==
  \/ Normalize
  \/ EventbriteCallback
  \/ GcalCallback
  \/ IcsLoopBody
  \/ Returned

NormSpec == NormInit /\ [][NormNext]_vars

(* ============================== properties ============================== *)

Done == pc = "done"

\* the request passed its parameter and credential checks
Attempted == outbound # <<>>

IsError(resp) == resp.error # "" /\ ~resp.hasEvents /\ resp.events = <<>> /\ ~resp.health
IsSuccess(resp) == resp.status = 200 /\ resp.error = "" /\ resp.hasEvents /\ ~resp.health
IsHealth(resp) == resp.status = 200 /\ resp.error = "" /\ ~resp.hasEvents /\ resp.health

\* the events of the response, when it is a success
Emitted == IF Done /\ sent # <<>> /\ sent[1].hasEvents THEN sent[1].events ELSE <<>>

\* what the try block of the finished request came to
TryResult ==
  CASE upstream.settled \in {"network", "rejected"} -> Threw(<<>>)
    [] route = "eventbrite" -> EventbriteTry(upstream.body)
    [] route = "gcal" -> GcalTry(upstream.body)
    [] OTHER -> IcsTry(upstream.parsed)

\* the upstream answer is a failure: the network, a non-2xx status, a body
\* that is not JSON or is null, a list field that is no list, a null
\* record; for the ICS route, whatever makes the library reject
UpstreamFailed ==
  \/ upstream.settled \in {"network", "rejected"}
  \/ /\ upstream.settled = "response"
     /\ \/ ~Is2xx(upstream.status)
        \/ upstream.body.kind # "object"
        \/ upstream.body.field = "string"
        \/ \E i \in 1..Len(upstream.body.records) : ~upstream.body.records[i].isObject

\* C1: on the three source routes, once the request passed its checks,
\* every upstream failure (network error, non-2xx response, malformed
\* payload) is answered 500 with the route's error summary and details,
\* never 200.
C1_UpstreamFailureIs500 ==
  (Done /\ Attempted /\ UpstreamFailed)
    => sent = <<Failed(FailureSummary(route))>>

\* C2: /api/google-calendar without a non-empty calendarId is answered 400
\* {error: "calendarId required"} with no outbound call, whether or not
\* GOOGLE_API_KEY is set.
C2_MissingCalendarId ==
  (route = "gcal" /\ ~Truthy(query.calendarId))
    => /\ Done
       /\ sent = <<Refuse(400, "calendarId required")>>
       /\ outbound = <<>>

C2_Witness ==
  /\ route = "gcal" /\ Done
  /\ query.calendarId = Str(<<>>)
  /\ GOOGLE_API_KEY = <<>>
  /\ sent # <<>> /\ sent[1].status = 400

\* C3: with its credential unset a route refuses with a 500 JSON error and
\* makes no outbound call: /api/eventbrite for every q and page,
\* /api/google-calendar when a calendarId is present.
C3_MissingCredential ==
  /\ (route = "eventbrite" /\ EVENTBRITE_TOKEN = <<>>)
       => /\ Done
          /\ sent = <<Refuse(500, "Missing EVENTBRITE_TOKEN env var")>>
          /\ outbound = <<>>
  /\ (route = "gcal" /\ Truthy(query.calendarId) /\ GOOGLE_API_KEY = <<>>)
       => /\ Done
          /\ sent = <<Refuse(500, "Missing GOOGLE_API_KEY env var")>>
          /\ outbound = <<>>

C3_Witness ==
  /\ route = "eventbrite" /\ Done
  /\ EVENTBRITE_TOKEN = <<>>
  /\ query.q # Undefined /\ query.page # Undefined
  /\ sent # <<>> /\ sent[1].status = 500 /\ outbound = <<>>

\* C4: a request ends with exactly one JSON response, a success with an
\* events array (or the health payload) or an error without events; a
\* failure of the fetch or of a record, also after earlier records were
\* normalized, discards the events built, and no exception escapes.
C4_OneJsonResponse ==
  /\ ~escaped
  /\ Len(sent) <= 1
  /\ Done => /\ Len(sent) = 1
             /\ IsSuccess(sent[1]) \/ IsHealth(sent[1]) \/ IsError(sent[1])
  /\ (Done /\ Attempted)
       => IF TryResult.threw THEN IsError(sent[1]) ELSE IsSuccess(sent[1])

C4_Witness ==
  /\ Done /\ Attempted /\ route = "ics"
  /\ TryResult.threw /\ TryResult.events # <<>>
  /\ sent = <<Failed("Failed to fetch/parse ICS")>>

TextFields == {"title", "description", "start", "end", "venue"}

\* C5: for any subset of its input fields, none included, normalizeEvent
\* returns a Canonical Event whose title, description, start, end and venue
\* are strings defaulting to "", organizer.type defaults to "other",
\* source.name to "external", tags is empty, external defaults to true
\* and registration.open is true.
C5_NormalizeDefaults ==
  /\ DOMAIN nres = {"id", "title", "description", "start", "end", "venue",
                    "organizer", "source", "tags", "external", "registration"}
  /\ \A f \in TextFields :
       /\ nres[f].t = "string"
       /\ nargs[f] = Undefined => nres[f] = Str(<<>>)
       /\ (nargs[f].t = "string" /\ nargs[f].s # <<>>) => nres[f] = nargs[f]
  /\ nargs.organizerType = Undefined => nres.organizer.type = Str(sOther)
  /\ nargs.sourceName = Undefined => nres.source.name = Str(sExternal)
  /\ nres.tags = <<>>
  /\ nargs.external = Undefined => nres.external = JTrue
  /\ nargs.external # Undefined => nres.external = nargs.external
  /\ nres.registration = [open |-> TRUE]

C5_Witness ==
  /\ ncall.site = "direct"
  /\ nargs = NoArgs
  /\ nres.venue = Str(<<>>) /\ nres.external = JTrue

VerifiedTypes == {Str(sGovernment), Str(sCompany)}

\* C6: organizer.verified is true iff organizer.type is exactly
\* "government" or "company"; so every Eventbrite event is verified and no
\* Google Calendar or ICS event is.
C6_Verified ==
  /\ nres.organizer.verified <=> nres.organizer.type \in VerifiedTypes
  /\ nres.organizer.verified <=> nargs.organizerType \in VerifiedTypes
  /\ ncall.site = "eventbrite" => nres.organizer.verified
  /\ ncall.site \in {"gcal", "ics"} => ~nres.organizer.verified

C6_Witness ==
  /\ ncall.site = "direct"
  /\ nargs.organizerType = Str(<<"C","o","m","p","a","n","y">>)
  /\ ~nres.organizer.verified

NonEmpty(v) == v.t = "string" /\ v.s # <<>>

\* C7: organizer.name is organizerName when non-empty, else sourceName when
\* non-empty, else "Unknown"; it is never empty in an emitted event, an
\* ICS event without organizer is named "ICS" and a Google Calendar item
\* without display name and email "Google Calendar".
C7_OrganizerName ==
  /\ nres.organizer.name =
       IF NonEmpty(nargs.organizerName) THEN nargs.organizerName
       ELSE IF NonEmpty(nargs.sourceName) THEN nargs.sourceName
       ELSE Str(sUnknown)
  /\ ncall.site \in {"eventbrite", "gcal", "ics"} => NonEmpty(nres.organizer.name)
  /\ (ncall.site = "ics" /\ ~NonEmpty(ncall.raw.organizer))
       => nres.organizer.name = Str(sICS)
  /\ (ncall.site = "gcal"
      /\ (~ncall.raw.hasOrganizer
          \/ (~NonEmpty(ncall.raw.displayName) /\ ~NonEmpty(ncall.raw.email))))
       => nres.organizer.name = Str(sGoogleCalendar)

C7_Witness ==
  /\ ncall.site = "ics"
  /\ ncall.raw.organizer = Undefined
  /\ nres.organizer.name = Str(sICS)

SourcePrefix(r) ==
  CASE r = "eventbrite" -> pEventbrite
    [] r = "gcal" -> pGcal
    [] OTHER -> pIcs

\* the VEVENT components in the order the response lists their events
IcsEmittedFrom == SelectSeq(IcsVisited(upstream.parsed), IsVEvent)

\* the source-local id of an ICS component: uid, else summary, else ""
IcsLocalId(c) ==
  IF NonEmpty(c.uid) THEN c.uid.s ELSE IF NonEmpty(c.summary) THEN c.summary.s ELSE <<>>

Suffix(id, r) == SubSeq(id.s, Len(SourcePrefix(r)) + 1, Len(id.s))

\* C8: every emitted event has a non-empty id made of its source's prefix
\* (eventbrite_, gcal_, ics_) and the source-local id, and events of
\* different sources never have equal ids, whatever the raw ids are.
C8_PrefixedIds ==
  LET evs == Emitted
      from == IF route = "ics" /\ evs # <<>> THEN IcsEmittedFrom ELSE <<>>
  IN
  /\ \A i \in 1..Len(evs) :
       /\ evs[i].id.t = "string"
       /\ evs[i].id.s # <<>>
       /\ IsPrefix(SourcePrefix(route), evs[i].id.s)
       /\ prev.route \notin {"none", route} => evs[i].id # prev.id
  /\ (evs # <<>> /\ route \in {"eventbrite", "gcal"})
       => /\ Len(evs) = Len(upstream.body.records)
          /\ \A i \in 1..Len(evs) :
               Suffix(evs[i].id, route) = ToStr(upstream.body.records[i].id)
  /\ (evs # <<>> /\ route = "ics")
       => /\ Len(evs) = Len(from)
          /\ \A i \in 1..Len(evs) :
               IsPrefix(Suffix(evs[i].id, route), IcsLocalId(from[i]))

C8_Witness ==
  /\ route = "ics" /\ Emitted # <<>>
  /\ Emitted[1].id = Str(pIcs)
  /\ prev = [route |-> "eventbrite", id |-> Str(pEventbrite)]

\* /api/fetch-ics answered with a success
IcsSucceeded == Done /\ route = "ics" /\ sent # <<>> /\ IsSuccess(sent[1])

\* the VEVENT positions of the parsed object, in insertion order
VEventPositions(parsed) == {i \in 1..Len(parsed) : IsVEvent(parsed[i].val)}

ListedBefore(parsed, i, j) ==
  LET ki == parsed[i].key
      kj == parsed[j].key
  IN \/ IsArrayIndex(ki) /\ IsArrayIndex(kj) /\ NumLess(ki, kj)
     \/ IsArrayIndex(ki) /\ ~IsArrayIndex(kj)
     \/ ~IsArrayIndex(ki) /\ ~IsArrayIndex(kj) /\ i < j

C10_IcsIdSlice ==
  (route = "ics" /\ Emitted # <<>>)
    => LET evs == Emitted
           from == IcsEmittedFrom
       IN /\ Len(evs) = Len(from)
          /\ \A n \in 1..Len(evs) :
               LET local == IcsLocalId(from[n])
                   suffix == Suffix(evs[n].id, "ics")
               IN /\ IsPrefix(pIcs, evs[n].id.s)
                  /\ Len(suffix) <= 40
                  /\ Len(suffix) = IF Len(local) < 40 THEN Len(local) ELSE 40
                  /\ \A i \in 1..Len(suffix) : suffix[i] = local[i]

C10_Witness ==
  /\ route = "ics" /\ Emitted # <<>>
  /\ \E n \in 1..Len(Emitted) :
       /\ Len(IcsEmittedFrom[n].uid.s) > 40
       /\ Len(Emitted[n].id.s) = 44

====
